---- MODULE Spec2Model ----
(***************************************************************************)
(* A model of slurmpy's Job class (src/slurmpy/_job.py): the ordered       *)
(* option and dependency mappings, the text renderers, and submit().       *)
(*                                                                         *)
(* Python strings are sequences of one-character strings, so that          *)
(* lstrip, replace, lower, strip, str(int) and int(str) are computed       *)
(* character by character.  Python values that the code tells apart with   *)
(* isinstance / `is None` are records tagged by their type.                *)
(***************************************************************************)
EXTENDS Integers, Sequences, FiniteSets, TLC

\* ------------------------------------------------------------ bounds
NumJobs == 2
MaxDeps == 2
MaxCalls == 2
MaxArgs == 2
MaxCmds == 2

Jobs == 1..NumJobs
\* The job the caller is building; the other Job objects are left as
\* constructed and serve as dependency targets and as jobs to submit.
Built == {1}

\* ------------------------------------------------------ Python values
None == [t |-> "None"]
PyInt(n) == [t |-> "int", i |-> n]
PyStr(s) == [t |-> "str", s |-> s]
PyList(l) == [t |-> "list", l |-> l]
PyJob(j) == [t |-> "Job", ref |-> j]
PyTuple(d, tm) == [t |-> "tuple", dep |-> d, time |-> tm]

isinstance(x, cls) == x.t = cls

Digits == <<"0", "1", "2", "3", "4", "5", "6", "7", "8", "9">>

RECURSIVE IntToStr(_)
IntToStr(n) ==
    IF n < 10 THEN <<Digits[n + 1]>>
    ELSE IntToStr(n \div 10) \o <<Digits[(n % 10) + 1]>>

\* str(x) / f"{x}" of a value that is None, an int or a str
str(x) ==
    CASE x.t = "None" -> <<"N", "o", "n", "e">>
      [] x.t = "int" -> IntToStr(x.i)
      [] x.t = "str" -> x.s

\* truth value of `if x:`
Truthy(x) ==
    CASE x.t = "None" -> FALSE
      [] x.t = "int" -> x.i # 0
      [] x.t = "str" -> x.s # <<>>
      [] x.t = "list" -> x.l # <<>>
      [] OTHER -> TRUE

UpperCase == <<"A", "B", "C", "D", "E", "F", "G", "H", "I", "J", "K", "L", "M",
               "N", "O", "P", "Q", "R", "S", "T", "U", "V", "W", "X", "Y", "Z">>
LowerCase == <<"a", "b", "c", "d", "e", "f", "g", "h", "i", "j", "k", "l", "m",
               "n", "o", "p", "q", "r", "s", "t", "u", "v", "w", "x", "y", "z">>

LowerChar(c) ==
    IF \E k \in 1..Len(UpperCase) : UpperCase[k] = c
    THEN LowerCase[CHOOSE k \in 1..Len(UpperCase) : UpperCase[k] = c]
    ELSE c

\* s.lower()
RECURSIVE lower(_)
lower(s) == IF s = <<>> THEN <<>> ELSE <<LowerChar(Head(s))>> \o lower(Tail(s))

\* s.replace(a, b) for one-character a and b
RECURSIVE replace(_, _, _)
replace(s, a, b) ==
    IF s = <<>> THEN <<>>
    ELSE <<IF Head(s) = a THEN b ELSE Head(s)>> \o replace(Tail(s), a, b)

\* s.lstrip(c)
RECURSIVE lstrip(_, _)
lstrip(s, c) == IF s # <<>> /\ Head(s) = c THEN lstrip(Tail(s), c) ELSE s

Whitespace == {" ", "\n", "\t", "\r"}

RECURSIVE lstripWs(_)
lstripWs(s) == IF s # <<>> /\ Head(s) \in Whitespace THEN lstripWs(Tail(s)) ELSE s

RECURSIVE rstripWs(_)
rstripWs(s) ==
    IF s # <<>> /\ s[Len(s)] \in Whitespace
    THEN rstripWs(SubSeq(s, 1, Len(s) - 1))
    ELSE s

\* s.strip()
strip(s) == rstripWs(lstripWs(s))

\* sep.join(parts)
RECURSIVE join(_, _)
join(sep, parts) ==
    IF parts = <<>> THEN <<>>
    ELSE IF Len(parts) = 1 THEN parts[1]
    ELSE parts[1] \o sep \o join(sep, Tail(parts))

IsDigit(c) == \E k \in 1..Len(Digits) : Digits[k] = c
DigitVal(c) == (CHOOSE k \in 1..Len(Digits) : Digits[k] = c) - 1

\* int(s) succeeds (s already stripped): one or more decimal digits
IsNumeric(s) == s # <<>> /\ \A k \in 1..Len(s) : IsDigit(s[k])

RECURSIVE ParseInt(_)
ParseInt(s) ==
    IF s = <<>> THEN 0
    ELSE 10 * ParseInt(SubSeq(s, 1, Len(s) - 1)) + DigitVal(s[Len(s)])

NL == <<"\n">>

\* ------------------------------------------- insertion-ordered dicts
\* A dict is a sequence of [key, val] records with distinct keys, in
\* insertion order.
DictHas(d, k) == \E n \in 1..Len(d) : d[n].key = k
DictIdx(d, k) == CHOOSE n \in 1..Len(d) : d[n].key = k
DictGet(d, k) == d[DictIdx(d, k)].val
DictKeys(d) == [n \in 1..Len(d) |-> d[n].key]

\* mutant: an overwritten key is moved behind the other keys
DictSetMoveToEnd(d, k, v) ==
    LET rest == SelectSeq(d, LAMBDA e : e.key # k)
    IN Append(rest, [key |-> k, val |-> v])

\* d[k] = v: overwrite in place, or append a new key
DictSet(d, k, v) ==
    IF DictHas(d, k)
    THEN [d EXCEPT ![DictIdx(d, k)].val = v]
    ELSE Append(d, [key |-> k, val |-> v])

\* d.pop(k) of a present key
DictPop(d, k) ==
    LET n == DictIdx(d, k)
    IN SubSeq(d, 1, n - 1) \o SubSeq(d, n + 1, Len(d))

\* mutant: the pair is put in front of the class's list
DefaultDictPrepend(d, k, x) ==
    IF DictHas(d, k)
    THEN [d EXCEPT ![DictIdx(d, k)].val = <<x>> \o @]
    ELSE Append(d, [key |-> k, val |-> <<x>>])

\* d[k].append(x) on a defaultdict(list): a missing key is first inserted
\* with an empty list
DefaultDictAppend(d, k, x) ==
    IF DictHas(d, k)
    THEN [d EXCEPT ![DictIdx(d, k)].val = Append(@, x)]
    ELSE Append(d, [key |-> k, val |-> <<x>>])

\* ------------------------------------------------------------ state
VARIABLES
    name,       \* name[j]: str
    shebang,    \* shebang[j]: str
    commands,   \* commands[j]: list of str
    job_id,     \* _job_id[j]: None or int
    args,       \* _args[j]: dict str -> str
    deps,       \* _deps[j]: defaultdict str -> list of (dep, time) tuples
    dep_sep,    \* _dep_sep[j]
    stack,      \* the active submit() calls, outermost first
    calls,      \* the jobs whose command was handed to the external client
    result,     \* the caller's last call: the method, the receiver, its
                \* dep, sep, keyword or account argument, and how it ended
                \* (a returned value or a raise)
    reply,      \* the external client's last reply: exit status and output
    added,      \* added[j]: the dependencies the caller added to j, in call
                \* order: the arguments of each add_dependency call with
                \* another target than j, and the first request of singleton
    walk        \* what held when the caller last called submit(): the number
                \* of client calls made before it and the job ids of then;
                \* None before the first submit()

vars == <<name, shebang, commands, job_id, args, deps, dep_sep, stack, calls,
          result, reply, added, walk>>

Call(op, j, in, kind, out) == [op |-> op, self |-> j, in |-> in, kind |-> kind, out |-> out]

\* ------------------------------------------------- literal strings
SbatchParsable ==
    <<"s", "b", "a", "t", "c", "h", " ", "-", "-", "p", "a", "r", "s", "a",
      "b", "l", "e", " ">>
HeredocOpen == <<"<", "<", "'", "E", "O", "F", "'">>
HeredocClose == <<"'", "E", "O", "F", "'">>
SbatchDirective == <<"#", "S", "B", "A", "T", "C", "H", " ">>
DefaultShebang == <<"/", "b", "i", "n", "/", "b", "a", "s", "h", " ", "-", "l">>
After == <<"a", "f", "t", "e", "r">>
Singleton == <<"s", "i", "n", "g", "l", "e", "t", "o", "n">>
Account == <<"a", "c", "c", "o", "u", "n", "t">>
Comma == <<",">>
Question == <<"?">>

\* ------------------------------------------------------- options
\* mutant: the key is stored as given
_parse_argname_raw(arg) == arg

\* Job._parse_argname
_parse_argname(arg) ==
    LET a == lstrip(arg, "_")
    IN IF Len(a) > 1 THEN <<"-", "-">> \o replace(a, "_", "-")
       ELSE IF Len(a) = 1 THEN <<"-">> \o a
       ELSE <<>>

RECURSIVE StrAll(_)
StrAll(l) == IF l = <<>> THEN <<>> ELSE <<str(Head(l))>> \o StrAll(Tail(l))

\* Job._parse_argvalues
_parse_argvalues(value) ==
    IF isinstance(value, "str") THEN value.s
    ELSE IF value = None THEN <<>>
    ELSE IF isinstance(value, "list") THEN join(Comma, StrAll(value.l))
    ELSE str(value)

\* mutant: "=" is put before every value
_arg_to_str_equals(argname, argvalue) ==
    IF argvalue # <<>> THEN argname \o <<"=">> \o argvalue ELSE argname

\* Job._arg_to_str
_arg_to_str(argname, argvalue) ==
    IF argvalue # <<>>
    THEN argname \o (IF Len(argname) = 2 THEN <<" ">> ELSE <<"=">>) \o argvalue
    ELSE argname

\* the loop shared by __init__ and add_arguments: kwargs is the sequence
\* of (key, value) keyword arguments in the order given
RECURSIVE UpdateArgs(_, _)
UpdateArgs(d, kwargs) ==
    IF kwargs = <<>> THEN d
    ELSE UpdateArgs(DictSet(d, _parse_argname(Head(kwargs).key),
                            _parse_argvalues(Head(kwargs).val)),
                    Tail(kwargs))

\* the loop of remove_arguments
RECURSIVE RemoveArgs(_, _)
RemoveArgs(d, keys) ==
    IF keys = <<>> THEN d
    ELSE LET k == _parse_argname(Head(keys))
         IN RemoveArgs(IF DictHas(d, k) THEN DictPop(d, k) ELSE d, Tail(keys))

\* mutant: the account is always passed on to add_arguments(account=...)
AccountArgsAdded(d, account) ==
    UpdateArgs(d, <<[key |-> Account, val |-> account]>>)

\* the option mapping after add_account(account)
AccountArgs(d, account) ==
    IF DictHas(d, <<"-", "A">>)
    THEN DictSet(d, <<"-", "A">>, str(account))
    ELSE IF DictHas(d, <<"-", "-">> \o Account)
    THEN DictSet(d, <<"-", "-">> \o Account, str(account))
    ELSE UpdateArgs(d, <<[key |-> Account, val |-> account]>>)

\* ---------------------------------------------------- dependencies
\* mutant: the time is kept whatever the qualifier
DepTimeKept(after, time) == IF isinstance(time, "int") THEN PyStr(str(time)) ELSE time

\* add_dependency's normalisation of `time`
DepTime(after, time) ==
    LET t1 == IF isinstance(time, "int") THEN PyStr(str(time)) ELSE time
    IN IF after # <<>> /\ Truthy(t1) THEN None ELSE t1

\* add_dependency's class key
DepKey(after) == After \o lower(after)

\* mutant: the mapping is replaced by one that holds singleton alone
DepsSingletonAlone(d) == <<[key |-> Singleton, val |-> <<>>]>>

\* add_singleton_dependency: self._deps["singleton"] = []
DepsSingleton(d) == DictSet(d, Singleton, <<>>)

\* mutant: the target is not compared with the job itself
DepsAddSelf(d, self, after, dep, time) ==
    IF after = PyStr(Singleton) THEN DepsSingleton(d)
    ELSE LET a == IF after = None THEN <<>> ELSE after.s
             dp == IF isinstance(dep, "int") THEN PyStr(str(dep)) ELSE dep
         IN DefaultDictAppend(d, DepKey(a), PyTuple(dp, DepTime(a, time)))

\* mutant: "singleton" is a qualifier like the others
DepsAddNoSingleton(d, self, after, dep, time) ==
    IF dep = PyJob(self) THEN d
    ELSE LET a == IF after = None THEN <<>> ELSE after.s
             dp == IF isinstance(dep, "int") THEN PyStr(str(dep)) ELSE dep
         IN DefaultDictAppend(d, DepKey(a), PyTuple(dp, DepTime(a, time)))

\* self._deps after add_dependency(after, dep, time) on job self
DepsAdd(d, self, after, dep, time) ==
    IF dep = PyJob(self) THEN d
    ELSE IF after = PyStr(Singleton) THEN DepsSingleton(d)
    ELSE LET a == IF after = None THEN <<>> ELSE after.s
             dp == IF isinstance(dep, "int") THEN PyStr(str(dep)) ELSE dep
         IN DefaultDictAppend(d, DepKey(a), PyTuple(dp, DepTime(a, time)))

\* mutant: the separator is assigned unchecked
SepSetUnchecked(cur, sep) == sep.s

\* the dep_sep setter
SepSet(cur, sep) == IF sep \notin {PyStr(Comma), PyStr(Question)} THEN cur ELSE sep.s

\* ------------------------------------------------------- rendering
RECURSIVE ArgLines(_)
ArgLines(d) ==
    IF d = <<>> THEN <<>>
    ELSE <<SbatchDirective \o _arg_to_str(Head(d).key, Head(d).val)>>
         \o ArgLines(Tail(d))

RECURSIVE ArgStrs(_)
ArgStrs(d) ==
    IF d = <<>> THEN <<>>
    ELSE <<_arg_to_str(Head(d).key, Head(d).val)>> \o ArgStrs(Tail(d))

\* Job.get_args_str
get_args_str(j) == join(<<" ">>, ArgStrs(args[j]))

\* Job._sbatch_directives
_sbatch_directives(j) == join(NL, ArgLines(args[j]))

\* Job._commands_str
_commands_str(j) == join(NL, commands[j])

\* mutant: both sections are appended whether or not they are empty
get_script_body_unguarded(j) ==
    <<"#", "!">> \o shebang[j] \o NL \o NL \o _sbatch_directives(j)
    \o NL \o NL \o _commands_str(j)

\* Job.get_script_body
get_script_body(j) ==
    LET body == <<"#", "!">> \o shebang[j]
        directives == _sbatch_directives(j)
        body1 == IF directives # <<>> THEN body \o NL \o NL \o directives ELSE body
    IN IF commands[j] # <<>> THEN body1 \o NL \o NL \o _commands_str(j) ELSE body1

\* one (job, time) pair of _dep_list_str's generator
DepPairStr(p) ==
    (IF isinstance(p.dep, "Job") THEN str(job_id[p.dep.ref]) ELSE str(p.dep))
    \o (IF Truthy(p.time) THEN <<"+">> \o str(p.time) ELSE <<>>)

RECURSIVE DepPairStrs(_)
DepPairStrs(l) ==
    IF l = <<>> THEN <<>> ELSE <<DepPairStr(Head(l))>> \o DepPairStrs(Tail(l))

RECURSIVE DepClassStrs(_)
DepClassStrs(d) ==
    IF d = <<>> THEN <<>>
    ELSE <<IF Head(d).key = Singleton THEN Singleton
           ELSE Head(d).key \o <<":">> \o join(<<":">>, DepPairStrs(Head(d).val))>>
         \o DepClassStrs(Tail(d))

\* Job._dep_list_str
_dep_list_str(j) == join(dep_sep[j], DepClassStrs(deps[j]))

\* Job._dep_str
_dep_str(j) ==
    IF Len(deps[j]) = 0 THEN <<>> ELSE <<"-", "d", " ">> \o _dep_list_str(j)

\* Job.get_full_command
get_full_command(j) ==
    LET d == _dep_str(j)
        dep_str == IF d # <<>> THEN d \o <<" ">> ELSE d
    IN join(NL, <<SbatchParsable \o dep_str \o HeredocOpen,
                  get_script_body(j),
                  HeredocClose>>)

\* --------------------------------------------------------- submit
\* every (dep, time) tuple of the mapping, in the order the nested loops
\* of submit() visit them
RECURSIVE Entries(_)
Entries(d) == IF d = <<>> THEN <<>> ELSE Head(d).val \o Entries(Tail(d))

\* submit()'s test on the loop variable: `dep` is bound to the elements
\* of the class lists, which are the (dep, time) tuples
NeedsSubmit(dep) == isinstance(dep, "Job") /\ job_id[dep.ref] = None

Frame(j, pos, pc, cmd) == [job |-> j, pos |-> pos, pc |-> pc, cmd |-> cmd]
Top == stack[Len(stack)]
Popped == SubSeq(stack, 1, Len(stack) - 1)

\* the call stack after an exception leaves the innermost submit():
\* nothing catches it, every active submit() is left
Unwind(st) == <<>>

\* mutant: the id is assigned before the output is checked
IdsOnFailureAssigned(ids, j) == [ids EXCEPT ![j] = PyInt(0)]

\* _job_id when subprocess.run or the assert or int() raises: the
\* assignment of line 429 is not reached
IdsOnFailure(ids, j) == ids

\* mutant: the id is kept on the class, shared by every Job
IdsOnSuccessShared(ids, j, jobid) == [k \in DOMAIN ids |-> PyInt(ParseInt(jobid))]

\* _job_id after `self._job_id = int(jobid)`
IdsOnSuccess(ids, j, jobid) == [ids EXCEPT ![j] = PyInt(ParseInt(jobid))]

\* ---------------------------------------------------- constructor
\* mutant: the constructor stores the keyword options under their raw keys
RECURSIVE UpdateArgsRaw(_, _)
UpdateArgsRaw(d, kwargs) ==
    IF kwargs = <<>> THEN d
    ELSE UpdateArgsRaw(DictSet(d, Head(kwargs).key,
                               _parse_argvalues(Head(kwargs).val)),
                       Tail(kwargs))

NewJobRawKeys(nm, sb, cmds, kwargs) ==
    [name |-> nm, shebang |-> sb, commands |-> cmds, job_id |-> None,
     deps |-> <<>>, dep_sep |-> Comma, args |-> UpdateArgsRaw(<<>>, kwargs)]

\* Job.__init__(name, shebang, commands, **kwargs)
NewJob(nm, sb, cmds, kwargs) ==
    [name |-> nm, shebang |-> sb, commands |-> cmds, job_id |-> None,
     deps |-> <<>>, dep_sep |-> Comma, args |-> UpdateArgs(<<>>, kwargs)]

\* Job()
DefaultJob == NewJob(<<>>, DefaultShebang, <<>>, <<>>)

\* ------------------------------------------------------- actions
\* the record of a singleton request in `added`
SingletonRequest == [after |-> PyStr(Singleton), dep |-> None, time |-> None]

AddedSingleton(h) ==
    IF \E n \in 1..Len(h) : h[n] = SingletonRequest THEN h
    ELSE Append(h, SingletonRequest)

AddDependency(j, after, dep, time) ==
    /\ stack = <<>>
    /\ deps' = [deps EXCEPT ![j] = DepsAdd(@, j, after, dep, time)]
    /\ Len(Entries(deps'[j])) <= MaxDeps
    /\ added' = [added EXCEPT ![j] =
                    IF dep = PyJob(j) THEN @
                    ELSE IF after = PyStr(Singleton) THEN AddedSingleton(@)
                    ELSE Append(@, [after |-> after, dep |-> dep, time |-> time])]
    /\ result' = Call("add_dependency", j, <<dep>>, "return", PyJob(j))
    /\ UNCHANGED <<name, shebang, commands, job_id, args, dep_sep, stack,
                   calls, reply, walk>>

AddSingletonDependency(j) ==
    /\ stack = <<>>
    /\ deps' = [deps EXCEPT ![j] = DepsSingleton(@)]
    /\ added' = [added EXCEPT ![j] = AddedSingleton(@)]
    /\ result' = Call("add_singleton_dependency", j, <<>>, "return", PyJob(j))
    /\ UNCHANGED <<name, shebang, commands, job_id, args, dep_sep, stack,
                   calls, reply, walk>>

\* job.dep_sep = sep
DepSepSetter(j, sep) ==
    /\ stack = <<>>
    /\ dep_sep' = [dep_sep EXCEPT ![j] = SepSet(@, sep)]
    /\ result' = Call("dep_sep", j, <<sep>>, "return", None)
    /\ UNCHANGED <<name, shebang, commands, job_id, args, deps, stack, calls,
                   reply, added, walk>>

SetDependencySep(j, sep) ==
    /\ stack = <<>>
    /\ dep_sep' = [dep_sep EXCEPT ![j] = SepSet(@, sep)]
    /\ result' = Call("set_dependency_sep", j, <<sep>>, "return", PyJob(j))
    /\ UNCHANGED <<name, shebang, commands, job_id, args, deps, stack, calls,
                   reply, added, walk>>

AddArguments(j, kwargs) ==
    /\ stack = <<>>
    /\ args' = [args EXCEPT ![j] = UpdateArgs(@, kwargs)]
    /\ Len(args'[j]) <= MaxArgs
    /\ result' = Call("add_arguments", j, kwargs, "return", PyJob(j))
    /\ UNCHANGED <<name, shebang, commands, job_id, deps, dep_sep, stack,
                   calls, reply, added, walk>>

RemoveArguments(j, keys) ==
    /\ stack = <<>>
    /\ args' = [args EXCEPT ![j] = RemoveArgs(@, keys)]
    /\ result' = Call("remove_arguments", j, keys, "return", PyJob(j))
    /\ UNCHANGED <<name, shebang, commands, job_id, deps, dep_sep, stack,
                   calls, reply, added, walk>>

AddAccount(j, account) ==
    /\ stack = <<>>
    /\ args' = [args EXCEPT ![j] = AccountArgs(@, account)]
    /\ Len(args'[j]) <= MaxArgs
    /\ result' = Call("add_account", j, <<account>>, "return", PyJob(j))
    /\ UNCHANGED <<name, shebang, commands, job_id, deps, dep_sep, stack,
                   calls, reply, added, walk>>

\* add_commands(*cmds): the list is extended and nothing is returned
AddCommands(j, cmds) ==
    /\ stack = <<>>
    /\ commands' = [commands EXCEPT ![j] = @ \o cmds]
    /\ Len(commands'[j]) <= MaxCmds
    /\ result' = Call("add_commands", j, cmds, "return", None)
    /\ UNCHANGED <<name, shebang, args, job_id, deps, dep_sep, stack, calls,
                   reply, added, walk>>

\* mutant: the renderer looks the class "after" up in the defaultdict, which
\* inserts it
DepsReadIndexed(d) ==
    IF DictHas(d, After) THEN d ELSE Append(d, [key |-> After, val |-> <<>>])

\* self._deps after _dep_str() and _dep_list_str(): len() and .items() of
\* the defaultdict insert no key
DepsRead(d) == d

\* a call of a method that reads: nothing is assigned
Read(op, j, out) ==
    /\ stack = <<>>
    /\ result' = Call(op, j, <<>>, "return", out)
    /\ UNCHANGED <<name, shebang, commands, job_id, args, dep_sep, stack, calls,
                   reply, added, walk>>

GetScriptBody(j) == Read("get_script_body", j, PyStr(get_script_body(j))) /\ UNCHANGED deps

\* str(job)
Str(j) == Read("__str__", j, PyStr(get_script_body(j))) /\ UNCHANGED deps

GetArgsStr(j) == Read("get_args_str", j, PyStr(get_args_str(j))) /\ UNCHANGED deps

GetFullCommand(j) ==
    /\ Read("get_full_command", j, PyStr(get_full_command(j)))
    /\ deps' = [deps EXCEPT ![j] = DepsRead(@)]

\* job.job_id: the id, or None (with a warning printed) before submission
JobId(j) == Read("job_id", j, job_id[j]) /\ UNCHANGED deps

\* the caller calls j.submit()
SubmitCall(j) ==
    /\ stack = <<>>
    /\ Len(calls) < MaxCalls
    /\ stack' = <<Frame(j, 1, "loop", <<>>)>>
    /\ result' = Call("submit", j, <<>>, "active", None)
    /\ walk' = [from |-> Len(calls), ids |-> job_id]
    /\ UNCHANGED <<name, shebang, commands, job_id, args, deps, dep_sep,
                   calls, reply, added>>

\* the innermost submit() runs its dependency loop up to the next
\* dep.submit() call or, when the loop ends, renders its command
SubmitStep ==
    /\ stack # <<>>
    /\ Top.pc = "loop"
    /\ LET es == Entries(deps[Top.job])
           todo == {i \in Top.pos..Len(es) : NeedsSubmit(es[i])}
       IN IF todo # {}
          THEN LET i == CHOOSE k \in todo : \A m \in todo : k <= m
               IN stack' = Append([stack EXCEPT ![Len(stack)].pos = i + 1],
                                  Frame(es[i].ref, 1, "loop", <<>>))
          ELSE stack' = [stack EXCEPT ![Len(stack)] =
                            Frame(Top.job, Len(es) + 1, "run",
                                  get_full_command(Top.job))]
    /\ UNCHANGED <<name, shebang, commands, job_id, args, deps, dep_sep,
                   calls, result, reply, added, walk>>

\* subprocess.run(cmd, check=True): sbatch exits non-zero
ClientExitNonZero ==
    /\ stack # <<>>
    /\ Top.pc = "run"
    /\ calls' = Append(calls, Top.job)
    /\ reply' = [exit |-> 1, out |-> <<>>]
    /\ job_id' = IdsOnFailure(job_id, Top.job)
    /\ stack' = Unwind(stack)
    /\ result' = Call("submit", stack[1].job, <<>>, "raise", "CalledProcessError")
    /\ UNCHANGED <<name, shebang, commands, args, deps, dep_sep, added, walk>>

\* sbatch exits zero having written out to its standard output
ClientExitZero(out) ==
    /\ stack # <<>>
    /\ Top.pc = "run"
    /\ calls' = Append(calls, Top.job)
    /\ reply' = [exit |-> 0, out |-> out]
    /\ LET jobid == strip(out)
       IN IF Len(jobid) = 0 \/ ~IsNumeric(jobid)
          THEN /\ job_id' = IdsOnFailure(job_id, Top.job)
               /\ stack' = Unwind(stack)
               /\ result' = Call("submit", stack[1].job, <<>>, "raise",
                                 IF Len(jobid) = 0 THEN "AssertionError"
                                 ELSE "ValueError")
          ELSE /\ job_id' = IdsOnSuccess(job_id, Top.job, jobid)
               /\ stack' = Popped
               /\ result' = IF Len(stack) = 1
                            THEN Call("submit", Top.job, <<>>, "return",
                                      PyJob(Top.job))
                            ELSE result
    /\ UNCHANGED <<name, shebang, commands, args, deps, dep_sep, added, walk>>

\* ------------------------------------------------------ inputs
\* the job the built job is made to depend on
Dependency == CHOOSE j \in Jobs : j \notin Built

Afters == {None, PyStr(<<>>), PyStr(<<"O", "k">>), PyStr(Singleton)}
DepTargets == {PyJob(j) : j \in Built \cup {Dependency}} \cup {PyInt(34)}
Times == {None, PyInt(5), PyStr(<<>>)}
Seps == {PyStr(Comma), PyStr(Question), PyStr(<<";">>)}
Stdouts == {<<"1", "2", "\n">>, <<"7">>, <<>>, <<"\n">>, <<"1", ";", "c", "\n">>}
RawKeys == {<<"a">>, <<"_", "a">>, <<"a", "b">>, <<"a", "_", "b">>, <<"_", "_">>,
            <<"A">>, Account}
ArgValues == {None, PyStr(<<"x">>), PyInt(10), PyList(<<PyStr(<<"x">>), PyInt(1)>>)}
Accounts == {PyStr(<<"p">>), PyInt(5)}
Kwargs ==
    {<<[key |-> k, val |-> v]>> : k \in RawKeys, v \in ArgValues}
    \cup {<<[key |-> <<"a">>, val |-> v], [key |-> k, val |-> PyStr(<<"x">>)]>> :
            k \in RawKeys \ {<<"a">>}, v \in ArgValues}
KeyLists == {<<k>> : k \in RawKeys} \cup {<<<<"a">>, k>> : k \in RawKeys}
CmdLists == {<<>>, <<<<"l", "s">>>>, <<<<"p", "w", "d">>>>,
             <<<<"l", "s">>, <<"p", "w", "d">>>>}

\* --------------------------------------------------- specifications
InitWith(built, ids, log) ==
    /\ name = [j \in Jobs |-> IF j \in Built THEN built.name ELSE DefaultJob.name]
    /\ shebang = [j \in Jobs |-> IF j \in Built THEN built.shebang
                                 ELSE DefaultJob.shebang]
    /\ commands = [j \in Jobs |-> IF j \in Built THEN built.commands
                                  ELSE DefaultJob.commands]
    /\ args = [j \in Jobs |-> IF j \in Built THEN built.args ELSE DefaultJob.args]
    /\ deps = [j \in Jobs |-> DefaultJob.deps]
    /\ dep_sep = [j \in Jobs |-> DefaultJob.dep_sep]
    /\ job_id = ids
    /\ stack = <<>>
    /\ calls = log
    /\ result = Call("__init__", 1, <<>>, "return", None)
    /\ reply = None
    /\ added = [j \in Jobs |-> <<>>]
    /\ walk = None

\* Building the dependencies of one job: the built job is a Job with a
\* name, a shebang, an option and a command, the others are Job() objects.
\* The dependency job either is still unsubmitted or has been submitted and
\* was given the id 13.
Init ==
    \E S \in SUBSET {Dependency} :
        InitWith(NewJob(<<"J">>, <<"/", "b", "i", "n", "/", "s", "h">>,
                        <<<<"l", "s">>>>, <<[key |-> <<"n">>, val |-> PyInt(1)]>>),
                 [j \in Jobs |-> IF j \in S THEN PyInt(13) ELSE None],
                 IF S = {} THEN <<>> ELSE <<Dependency>>)

Next ==
    \/ \E j \in Built, after \in Afters \ {None}, dep \in DepTargets,
          time \in Times \ {PyStr(<<>>)} :
          AddDependency(j, after, dep, time)
    \/ \E j \in Built : AddSingletonDependency(j)
    \/ \E j \in Built, sep \in Seps : DepSepSetter(j, sep)
    \/ \E j \in Built, sep \in Seps : SetDependencySep(j, sep)

Spec == Init /\ [][Next]_vars

\* add_dependency alone, on Job() objects, with every combination of its
\* arguments.
InitAdd == InitWith(DefaultJob, [j \in Jobs |-> None], <<>>)

NextAdd ==
    \E j \in Built, after \in Afters, dep \in DepTargets, time \in Times :
        AddDependency(j, after, dep, time)

SpecAdd == InitAdd /\ [][NextAdd]_vars

\* Submitting: every job is a Job(); the built job is given dependencies
\* on jobs and job ids, and any job is submitted, any number of times.
InitSubmit == InitWith(DefaultJob, [j \in Jobs |-> None], <<>>)

NextSubmit ==
    \/ \E j \in Built, dep \in {PyJob(k) : k \in Jobs} \cup {PyInt(34)} :
          AddDependency(j, PyStr(<<"O", "k">>), dep, None)
    \/ \E j \in Jobs : SubmitCall(j)
    \/ SubmitStep
    \/ ClientExitNonZero
    \/ \E out \in Stdouts : ClientExitZero(out)

SpecSubmit == InitSubmit /\ [][NextSubmit]_vars

\* Options: the built job is constructed with keyword options and its
\* options are then added, removed and overwritten.
InitArgs ==
    \E kwargs \in Kwargs \cup {<<>>} :
        /\ Len(UpdateArgs(<<>>, kwargs)) <= MaxArgs
        /\ InitWith(NewJob(<<>>, DefaultShebang, <<>>, kwargs),
                    [j \in Jobs |-> None], <<>>)

NextArgs ==
    \/ \E j \in Built, kwargs \in Kwargs : AddArguments(j, kwargs)
    \/ \E j \in Built, keys \in KeyLists : RemoveArguments(j, keys)
    \/ \E j \in Built, account \in Accounts : AddAccount(j, account)

SpecArgs == InitArgs /\ [][NextArgs]_vars

\* Constructing with options and adding them afterwards: the built job is
\* Job(name, shebang, commands, **kwargs), the others are
\* Job(name, shebang, commands), and the first call on the plain job is an
\* add_arguments call.
Plain == CHOOSE j \in Jobs : j \notin Built

InitCtor ==
    \E kwargs \in Kwargs \cup {<<>>},
       base \in {DefaultJob,
                 NewJob(<<"J">>, <<"/", "b", "i", "n", "/", "s", "h">>,
                        <<<<"l", "s">>>>, <<>>)} :
        LET built == NewJob(base.name, base.shebang, base.commands, kwargs)
            plain == NewJob(base.name, base.shebang, base.commands, <<>>)
        IN /\ name = [j \in Jobs |-> base.name]
           /\ shebang = [j \in Jobs |-> base.shebang]
           /\ commands = [j \in Jobs |-> base.commands]
           /\ args = [j \in Jobs |-> IF j \in Built THEN built.args ELSE plain.args]
           /\ deps = [j \in Jobs |-> plain.deps]
           /\ dep_sep = [j \in Jobs |-> plain.dep_sep]
           /\ job_id = [j \in Jobs |-> plain.job_id]
           /\ stack = <<>>
           /\ calls = <<>>
           /\ result = Call("__init__", 1, kwargs, "return", None)
           /\ reply = None
           /\ added = [j \in Jobs |-> <<>>]
           /\ walk = None

NextCtor ==
    \E kwargs \in Kwargs \cup {<<>>} :
        /\ result.op = "__init__"
        /\ AddArguments(Plain, kwargs)

SpecCtor == InitCtor /\ [][NextCtor]_vars

\* Building a job with every builder method: a Job() is given options,
\* an account, commands, dependencies and a separator, in any order.
InitBuild == InitWith(DefaultJob, [j \in Jobs |-> None], <<>>)

NextBuild ==
    \/ \E j \in Built, k \in {<<"a">>, <<"a", "_", "b">>}, v \in {None, PyInt(10)} :
          AddArguments(j, <<[key |-> k, val |-> v]>>)
    \/ \E j \in Built : RemoveArguments(j, <<<<"a">>>>)
    \/ \E j \in Built : AddAccount(j, PyStr(<<"p">>))
    \/ \E j \in Built, cmds \in CmdLists : AddCommands(j, cmds)
    \/ \E j \in Built, after \in {PyStr(<<"O", "k">>), PyStr(Singleton)},
          dep \in {PyJob(k) : k \in Built} \cup {PyInt(34)} :
          AddDependency(j, after, dep, None)
    \/ \E j \in Built : AddSingletonDependency(j)
    \/ \E j \in Built, sep \in Seps : SetDependencySep(j, sep)

SpecBuild == InitBuild /\ [][NextBuild]_vars

\* Options that are only added: the built job is constructed with or
\* without keyword options and add_arguments is called on it any number of
\* times, with one or two keywords, some of which name the same flag.
OptKwargs ==
    {<<[key |-> k, val |-> v]>> :
        k \in {<<"a">>, <<"_", "a">>, <<"a", "b">>, <<"_", "_">>, <<"A">>},
        v \in {None, PyStr(<<"x">>), PyInt(10)}}
    \cup {<<[key |-> <<"a">>, val |-> v], [key |-> k, val |-> PyStr(<<"x">>)]>> :
            k \in {<<"_", "a">>, <<"a", "b">>}, v \in {None, PyInt(10)}}
    \cup {<<[key |-> <<"a", "b">>, val |-> None], [key |-> <<"a">>, val |-> None]>>}

InitOpts ==
    \E kwargs \in OptKwargs \cup {<<>>} :
        InitWith(NewJob(<<>>, DefaultShebang, <<>>, kwargs),
                 [j \in Jobs |-> None], <<>>)

NextOpts == \E j \in Built, kwargs \in OptKwargs : AddArguments(j, kwargs)

SpecOpts == InitOpts /\ [][NextOpts]_vars

\* The script body: the built job is constructed with or without a
\* shebang, commands and an option, and is then given and relieved of
\* options and given commands.
BodyKwargs ==
    {<<[key |-> k, val |-> v]>> :
        k \in {<<"a">>, <<"a", "_", "b">>, <<"_", "_">>},
        v \in {None, PyStr(<<"x">>), PyList(<<PyStr(<<"x">>), PyInt(1)>>)}}

InitBody ==
    \E sb \in {DefaultShebang, <<"s", "h">>, <<>>},
       cmds \in {<<>>, <<<<"l", "s">>>>, <<<<>>>>},
       kwargs \in {<<>>, <<[key |-> <<"n">>, val |-> PyInt(1)]>>} :
        InitWith(NewJob(<<>>, sb, cmds, kwargs), [j \in Jobs |-> None], <<>>)

NextBody ==
    \/ \E j \in Built, kwargs \in BodyKwargs : AddArguments(j, kwargs)
    \/ \E j \in Built, k \in {<<"a">>, <<"n">>} : RemoveArguments(j, <<k>>)
    \/ \E j \in Built, cmds \in CmdLists : AddCommands(j, cmds)

SpecBody == InitBody /\ [][NextBody]_vars

\* One graph of jobs: every job is a Job(), some were submitted earlier
\* and hold the id 13; any job is made to depend on any job, and any job is
\* submitted.
RECURSIVE Ascending(_)
Ascending(S) ==
    IF S = {} THEN <<>>
    ELSE LET m == CHOOSE x \in S : \A y \in S : x <= y
         IN <<m>> \o Ascending(S \ {m})

InitGraph ==
    \E S \in SUBSET Jobs :
        InitWith(DefaultJob, [j \in Jobs |-> IF j \in S THEN PyInt(13) ELSE None],
                 Ascending(S))

NextGraph ==
    \/ \E j \in Jobs, after \in {None, PyStr(<<"O", "k">>)},
          dep \in {PyJob(k) : k \in Jobs} :
          AddDependency(j, after, dep, None)
    \/ \E j \in Jobs : SubmitCall(j)
    \/ SubmitStep
    \/ ClientExitNonZero
    \/ \E out \in {<<"1", "2", "\n">>, <<"7">>} : ClientExitZero(out)

SpecGraph == InitGraph /\ [][NextGraph]_vars

\* add_dependency with the qualifier "singleton": the built job is given
\* dependencies with and without a qualifier, and is asked for singleton
\* through add_dependency with every kind of target and time.
SingletonTargets == DepTargets \cup {None}

InitSingleton == InitWith(DefaultJob, [j \in Jobs |-> None], <<>>)

NextSingleton ==
    \/ \E j \in Built, dep \in SingletonTargets, time \in Times :
          AddDependency(j, PyStr(Singleton), dep, time)
    \/ \E j \in Built, after \in {None, PyStr(<<"O", "k">>)}, dep \in DepTargets,
          time \in {None, PyInt(5)} :
          AddDependency(j, after, dep, time)

SpecSingleton == InitSingleton /\ [][NextSingleton]_vars

\* Reading between mutations: the built job has a name, a shebang, a
\* command and an option; it is made to depend on another job, given
\* options, read through every reading method, and the jobs are submitted.
InitRead ==
    InitWith(NewJob(<<"J">>, <<"/", "b", "i", "n", "/", "s", "h">>,
                    <<<<"l", "s">>>>, <<[key |-> <<"n">>, val |-> PyInt(1)]>>),
             [j \in Jobs |-> None], <<>>)

NextRead ==
    \/ \E j \in Built : GetScriptBody(j)
    \/ \E j \in Built : Str(j)
    \/ \E j \in Built : GetArgsStr(j)
    \/ \E j \in Built : GetFullCommand(j)
    \/ \E j \in Built \cup {Dependency} : JobId(j)
    \/ \E j \in Built, after \in {PyStr(<<"O", "k">>), PyStr(Singleton)} :
          AddDependency(j, after, PyJob(Dependency), None)
    \/ \E j \in Built : AddArguments(j, <<[key |-> <<"a">>, val |-> None]>>)
    \/ \E j \in Built \cup {Dependency} : SubmitCall(j)
    \/ SubmitStep
    \/ ClientExitNonZero
    \/ ClientExitZero(<<"7">>)

SpecRead == InitRead /\ [][NextRead]_vars

\* ============================================================ claims
Last(q) == q[Len(q)]

\* sub occurs in s
Contains(s, sub) ==
    \E n \in 0..(Len(s) - Len(sub)) : SubSeq(s, n + 1, n + Len(sub)) = sub

\* the dependency targets of j that are Job objects
JobTargets(j) ==
    {Entries(deps[j])[n].dep.ref : n \in {m \in 1..Len(Entries(deps[j])) :
                                        isinstance(Entries(deps[j])[m].dep, "Job")}}

\* the step in which the external client answers the innermost submit()
ClientReplies == stack # <<>> /\ Top.pc = "run" /\ calls' = Append(calls, Top.job)

\* the reply is one of the failures: a non-zero exit, an empty output or
\* an output that is no number
FailureReply(r) == r.exit # 0 \/ strip(r.out) = <<>> \/ ~IsNumeric(strip(r.out))

\* C1: whenever a submit() has rendered its job's command and is about to
\* hand it to the external client, every Job object among that job's
\* dependency targets has its id set, and the command does not hold the
\* placeholder None.
C1_DepsSubmittedBeforeRender ==
    \A k \in 1..Len(stack) :
        stack[k].pc = "run" =>
            /\ \A d \in JobTargets(stack[k].job) : job_id[d] # None
            /\ ~Contains(stack[k].cmd, <<"N", "o", "n", "e">>)

\* C2 as stated: once a job's id is set it never changes to another value
\* and never returns to absent.
C2_IdNeverChanges ==
    [][\A j \in Jobs : job_id[j] # None => job_id'[j] = job_id[j]]_vars

\* C2 as amended: once a job's id is set it never returns to absent, and it
\* changes only in the step in which the external client answers a submit()
\* of that very job with a number, which becomes the job's id.
C2_IdSetOnlyBySubmit ==
    [][\A j \in Jobs :
          /\ job_id[j] # None => job_id'[j] # None
          /\ job_id'[j] # job_id[j] =>
                /\ ClientReplies
                /\ Top.job = j
                /\ ~FailureReply(reply')
                /\ job_id'[j] = PyInt(ParseInt(strip(reply'.out)))]_vars

\* C2 witness: a job that was submitted twice holds an id.
C2_Witness ==
    \E j \in Jobs :
        /\ stack = <<>>
        /\ job_id[j] # None
        /\ Cardinality({n \in 1..Len(calls) : calls[n] = j}) >= 2

\* C3 as stated: when the external client fails for job J the submit() call
\* ends in error with J's id absent, no submit() stays active, and every
\* other job keeps its id.
C3_FailureLeavesIdAbsent ==
    [][(ClientReplies /\ FailureReply(reply')) =>
          /\ stack' = <<>>
          /\ result'.kind = "raise"
          /\ job_id'[Top.job] = None
          /\ \A j \in Jobs \ {Top.job} : job_id'[j] = job_id[j]]_vars

\* C3 as amended: when the external client fails for job J the submit() call
\* ends in error with J's id as it was before the call (absent if J was
\* never submitted, its earlier id if J is submitted again), no submit()
\* stays active, and every job keeps its id.
C3_FailureKeepsIds ==
    [][(ClientReplies /\ FailureReply(reply')) =>
          /\ stack' = <<>>
          /\ result'.kind = "raise"
          /\ result'.op = "submit"
          /\ job_id' = job_id]_vars

\* C3 witness: a submit() has just failed for a job that holds the id it
\* was given by an earlier submit().
C3_Witness ==
    /\ stack = <<>>
    /\ result.kind = "raise"
    /\ reply # None
    /\ FailureReply(reply)
    /\ job_id[Last(calls)] # None

\* C4: get_full_command() is "sbatch --parsable ", then "-d <expression> "
\* exactly when a dependency class is recorded, then <<'EOF', then the
\* script body, then a last line that is the delimiter EOF.
C4_FullCommand ==
    \A j \in Jobs :
        get_full_command(j) =
            SbatchParsable
            \o (IF deps[j] # <<>>
                THEN <<"-", "d", " ">> \o _dep_list_str(j) \o <<" ">>
                ELSE <<>>)
            \o <<"<", "<", "'", "E", "O", "F", "'">> \o NL
            \o get_script_body(j) \o NL
            \o <<"E", "O", "F">>

\* ---- what the caller asked for, read from `added`
\* the qualifier of a request: None counts as the empty qualifier
Qualifier(h) == IF h.after = None THEN <<>> ELSE h.after.s

\* the dependency class a request names
ClassOf(h) ==
    IF h = SingletonRequest THEN Singleton ELSE After \o lower(Qualifier(h))

\* the classes of the requests h, each once, in the order of first request
RECURSIVE ClassesOf(_)
ClassesOf(h) ==
    IF h = <<>> THEN <<>>
    ELSE LET before == ClassesOf(SubSeq(h, 1, Len(h) - 1))
             c == ClassOf(Last(h))
         IN IF \E n \in 1..Len(before) : before[n] = c THEN before
            ELSE Append(before, c)

\* the requests of h that name class c, in call order
RequestsOf(h, c) == SelectSeq(h, LAMBDA r : ClassOf(r) = c)

\* the time a request leaves stored: a time given with a qualifier is
\* dropped, a time given without one is kept as a string
KeptTime(h) ==
    IF Qualifier(h) # <<>> /\ Truthy(h.time) THEN None
    ELSE IF isinstance(h.time, "int") THEN PyStr(IntToStr(h.time.i))
    ELSE h.time

\* the target of a request as the expression shows it
TargetText(h) ==
    IF isinstance(h.dep, "Job")
    THEN (IF job_id[h.dep.ref] = None THEN <<"N", "o", "n", "e">>
          ELSE IntToStr(job_id[h.dep.ref].i))
    ELSE IF isinstance(h.dep, "int") THEN IntToStr(h.dep.i)
    ELSE h.dep.s

RequestText(h) ==
    TargetText(h)
    \o (IF KeptTime(h) # None /\ KeptTime(h).s # <<>>
        THEN <<"+">> \o KeptTime(h).s ELSE <<>>)

RECURSIVE RequestTexts(_)
RequestTexts(h) ==
    IF h = <<>> THEN <<>> ELSE <<RequestText(Head(h))>> \o RequestTexts(Tail(h))

RECURSIVE ClassTexts(_, _)
ClassTexts(cs, h) ==
    IF cs = <<>> THEN <<>>
    ELSE <<IF Head(cs) = Singleton THEN Singleton
           ELSE Head(cs) \o <<":">>
                \o join(<<":">>, RequestTexts(RequestsOf(h, Head(cs))))>>
         \o ClassTexts(Tail(cs), h)

\* the after-classes of a dependency mapping with their pairs, in order
AfterClasses(d) == SelectSeq(d, LAMBDA e : e.key # Singleton)

\* C5 as stated: every pair stored under a qualified class (a class key
\* other than "after") has an absent time, and the "after" class holds,
\* in call order, the requests made with an empty or None qualifier, each
\* with its time kept as a string.
C5_QualifiedTimeAbsent ==
    \A j \in Jobs :
        /\ \A n \in 1..Len(deps[j]) :
              deps[j][n].key # After =>
                  \A m \in 1..Len(deps[j][n].val) : deps[j][n].val[m].time = None
        /\ LET plain == RequestsOf(added[j], After)
               stored == IF DictHas(deps[j], After) THEN DictGet(deps[j], After)
                         ELSE <<>>
           IN /\ Len(stored) = Len(plain)
              /\ \A m \in 1..Len(plain) :
                    stored[m].time = IF isinstance(plain[m].time, "int")
                                     THEN PyStr(IntToStr(plain[m].time.i))
                                     ELSE plain[m].time

\* C5 as amended: every pair stored under a qualified class has a time that
\* is absent or the empty string: a non-empty time passed with a non-empty
\* qualifier is discarded and an empty-string time is stored as given; the
\* "after" class holds, in call order, the requests made with an empty or
\* None qualifier, each with its time kept as a string.
C5_QualifiedTimeEmpty ==
    \A j \in Jobs :
        /\ \A n \in 1..Len(deps[j]) :
              deps[j][n].key # After =>
                  \A m \in 1..Len(deps[j][n].val) :
                      deps[j][n].val[m].time \in {None, PyStr(<<>>)}
        /\ LET plain == RequestsOf(added[j], After)
               stored == IF DictHas(deps[j], After) THEN DictGet(deps[j], After)
                         ELSE <<>>
           IN /\ Len(stored) = Len(plain)
              /\ \A m \in 1..Len(plain) :
                    stored[m].time = IF isinstance(plain[m].time, "int")
                                     THEN PyStr(IntToStr(plain[m].time.i))
                                     ELSE plain[m].time

\* C5 witness: a time was passed with the qualifier Ok and another with the
\* qualifier None.
C5_Witness ==
    \E j \in Jobs :
        /\ \E n \in 1..Len(added[j]) :
              added[j][n].after = PyStr(<<"O", "k">>) /\ added[j][n].time = PyInt(5)
        /\ \E n \in 1..Len(added[j]) :
              added[j][n].after = None /\ added[j][n].time = PyInt(5)

\* C6: the rendered dependency expression lists the classes in the order in
\* which each was first added, each after-class followed by its targets in
\* the order they were added, a target followed by +time only when a time
\* is stored for it; targets are joined by ":" and classes by the current
\* separator.
C6_ExpressionInCallOrder ==
    \A j \in Jobs :
        _dep_list_str(j) =
            join(dep_sep[j], ClassTexts(ClassesOf(added[j]), added[j]))

\* C6 witness: two after-classes and singleton were added, one target is a
\* submitted job, one has a time, and the separator is "?".
C6_Witness ==
    \E j \in Jobs :
        /\ Len(deps[j]) = 3
        /\ dep_sep[j] = Question
        /\ \E n \in 1..Len(added[j]) :
              /\ isinstance(added[j][n].dep, "Job")
              /\ job_id[added[j][n].dep.ref] # None
        /\ \E n \in 1..Len(added[j]) : KeptTime(added[j][n]) = PyStr(<<"5">>)

\* C7: add_singleton_dependency() leaves the mapping as it is when the
\* singleton class is present, and otherwise adds the singleton class with
\* no targets behind the classes recorded; no call removes the singleton
\* class; its target list is always empty; a mapping with the singleton
\* class alone renders as "singleton".
C7_Singleton ==
    [][\A j \in Jobs :
          /\ (result'.op = "add_singleton_dependency" /\ result'.self = j) =>
                deps'[j] = IF DictHas(deps[j], Singleton) THEN deps[j]
                           ELSE Append(deps[j], [key |-> Singleton, val |-> <<>>])
          /\ DictHas(deps[j], Singleton) =>
                /\ DictHas(deps'[j], Singleton)
                /\ DictGet(deps'[j], Singleton) = <<>>
          /\ DictKeys(deps'[j]) = <<Singleton>> => _dep_list_str(j)' = Singleton]_vars

\* C7 witness: add_singleton_dependency() was called on a job that had an
\* after-class recorded, and the job has both.
C7_Witness ==
    \E j \in Jobs :
        /\ result.op = "add_singleton_dependency"
        /\ Len(deps[j]) >= 2
        /\ Last(deps[j]).key = Singleton
        /\ deps[j][1].val # <<>>

\* C8: the separator is "," or "?"; assigning another value through the
\* dep_sep setter or set_dependency_sep raises nothing and changes nothing
\* of the job, assigning "," or "?" makes it the separator and changes
\* nothing else.
C8_Separator ==
    [][\A j \in Jobs :
          /\ dep_sep[j] \in {Comma, Question}
          /\ dep_sep'[j] \in {Comma, Question}
          /\ (result'.op \in {"dep_sep", "set_dependency_sep"} /\ result'.self = j) =>
                /\ result'.kind = "return"
                /\ dep_sep'[j] = IF result'.in[1] \in {PyStr(Comma), PyStr(Question)}
                                 THEN result'.in[1].s ELSE dep_sep[j]
                /\ UNCHANGED <<name, shebang, commands, job_id, args, deps>>]_vars

\* C8 witness: ";" was assigned to a job whose separator was "?", and the
\* separator is "?".
C8_Witness ==
    \E j \in Jobs :
        /\ result.op \in {"dep_sep", "set_dependency_sep"}
        /\ result.in = <<PyStr(<<";">>)>>
        /\ dep_sep[j] = Question

IsCanonical(k) ==
    \/ Len(k) >= 4 /\ k[1] = "-" /\ k[2] = "-"
    \/ Len(k) = 2 /\ k[1] = "-"

\* C10 as stated: every key of the options mapping is in canonical flag
\* form.
C10_KeysCanonical ==
    \A j \in Jobs : \A n \in 1..Len(args[j]) : IsCanonical(args[j][n].key)

\* C10 as amended: every key of the options mapping is in canonical flag
\* form or is the empty string, which is what a raw key made only of
\* underscores is stored as.
C10_KeysCanonicalOrEmpty ==
    \A j \in Jobs : \A n \in 1..Len(args[j]) :
        IsCanonical(args[j][n].key) \/ args[j][n].key = <<>>

\* C10 witness: the options hold the empty key next to a long flag.
C10_Witness ==
    \E j \in Jobs :
        /\ DictHas(args[j], <<>>)
        /\ \E n \in 1..Len(args[j]) : Len(args[j][n].key) >= 4

\* ---- options, read from the arguments of the call
\* the flag a raw key names: the key without its leading underscores, as
\* "-x" when one character is left, as "--" and the name with hyphens for
\* underscores when more are left, and empty when nothing is left
FlagOf(raw) ==
    LET lead == CHOOSE m \in 0..Len(raw) :
                    /\ \A i \in 1..m : raw[i] = "_"
                    /\ m = Len(raw) \/ raw[m + 1] # "_"
        nm == SubSeq(raw, lead + 1, Len(raw))
    IN IF Len(nm) = 0 THEN <<>>
       ELSE IF Len(nm) = 1 THEN <<"-", nm[1]>>
       ELSE <<"-", "-">> \o [i \in 1..Len(nm) |-> IF nm[i] = "_" THEN "-" ELSE nm[i]]

\* the flags the keyword arguments kw name, in the order given
FlagsOf(kw) == [n \in 1..Len(kw) |-> FlagOf(kw[n].key)]

\* the positions in the flags fl that hold the flag k
Naming(fl, k) == {n \in 1..Len(fl) : fl[n] = k}

Min(S) == CHOOSE n \in S : \A m \in S : n <= m
Max(S) == CHOOSE n \in S : \A m \in S : n >= m

\* the keys of d are pairwise different
KeysDistinct(d) == \A a, b \in 1..Len(d) : d[a].key = d[b].key => a = b

\* C11: an add_arguments call keeps every option that was present at its
\* position, puts the flags that were not present behind them in the order
\* in which the call first names them, holds every flag exactly once, and
\* gives every flag the call names the value of the last keyword argument
\* that names it, leaving the other values as they were; so after
\* add_arguments calls alone the options are in first-added order with the
\* most recent values.
C11_OptionsInFirstAddedOrder ==
    [][\A j \in Jobs :
          (result'.op = "add_arguments" /\ result'.self = j) =>
              LET kw == result'.in
                  fl == FlagsOf(kw)
                  old == args[j]
                  new == args'[j]
              IN /\ KeysDistinct(new)
                 /\ Len(new) >= Len(old)
                 /\ \A n \in 1..Len(old) : new[n].key = old[n].key
                 /\ \A n \in 1..Len(fl) : DictHas(new, fl[n])
                 /\ \A n \in (Len(old) + 1)..Len(new) :
                       /\ Naming(fl, new[n].key) # {}
                       /\ \A m \in (n + 1)..Len(new) :
                             Min(Naming(fl, new[n].key)) < Min(Naming(fl, new[m].key))
                 /\ \A n \in 1..Len(new) :
                       new[n].val =
                           IF Naming(fl, new[n].key) # {}
                           THEN _parse_argvalues(kw[Max(Naming(fl, new[n].key))].val)
                           ELSE old[n].val]_vars

\* C11 witness: add_arguments(_a=...) was called on a job that held -a in
\* front of another option, and -a is still in front, with the new value.
C11_Witness ==
    \E j \in Jobs :
        /\ result.op = "add_arguments"
        /\ result.self = j
        /\ Len(result.in) = 1
        /\ result.in[1].key = <<"_", "a">>
        /\ Len(args[j]) = 2
        /\ args[j][1].key = <<"-", "a">>
        /\ args[j][1].val = _parse_argvalues(result.in[1].val)
        /\ args[j][1].val # <<>>

ShortAccount == <<"-", "A">>
LongAccount == <<"-", "-", "a", "c", "c", "o", "u", "n", "t">>

\* the string form of an account id that is a string or a number
IdText(id) == IF isinstance(id, "int") THEN IntToStr(id.i) ELSE id.s

\* C12: add_account(id) on a job that holds -A or --account leaves the keys
\* and their order as they are and makes id's string form the value of the
\* account flag that is present (of -A when both are); on a job that holds
\* neither it puts the one new option --account with that value behind the
\* options present; every option that is no account flag keeps its value
\* and its position; the call returns the job.
C12_AddAccount ==
    [][\A j \in Jobs :
          (result'.op = "add_account" /\ result'.self = j) =>
              LET id == result'.in[1]
                  old == args[j]
                  new == args'[j]
                  flag == IF DictHas(old, ShortAccount) THEN ShortAccount
                          ELSE LongAccount
              IN /\ IF DictHas(old, ShortAccount) \/ DictHas(old, LongAccount)
                    THEN /\ Len(new) = Len(old)
                         /\ \A n \in 1..Len(old) : new[n].key = old[n].key
                    ELSE /\ Len(new) = Len(old) + 1
                         /\ \A n \in 1..Len(old) : new[n].key = old[n].key
                         /\ new[Len(new)].key = LongAccount
                 /\ DictHas(new, flag)
                 /\ DictGet(new, flag) = IdText(id)
                 /\ \A n \in 1..Len(old) :
                       old[n].key \notin {ShortAccount, LongAccount} =>
                           new[n] = old[n]
                 /\ result'.kind = "return"
                 /\ result'.out = PyJob(j)]_vars

\* C12 witness: add_account was called on a job that held another option
\* and behind it -A with another value, and -A holds the id.
C12_Witness ==
    \E j \in Jobs :
        /\ result.op = "add_account"
        /\ result.self = j
        /\ Len(args[j]) = 2
        /\ args[j][1].key \notin {ShortAccount, LongAccount}
        /\ args[j][2].key = ShortAccount
        /\ args[j][2].val = IdText(result.in[1])
        /\ args[j][2].val = <<"5">>

\* C13: a job constructed with keyword options and a job constructed with
\* the same name, shebang and commands and no options, on which
\* add_arguments is then called with the same options in the same order,
\* have the same option mapping, the same script body and the same
\* argument string.
C13_CtorEqualsAddArguments ==
    [][(/\ result.op = "__init__"
        /\ result'.op = "add_arguments"
        /\ result'.in = result.in) =>
            \A b \in Built, j \in Jobs :
                result'.self = j =>
                    /\ args'[j] = args'[b]
                    /\ get_script_body(j)' = get_script_body(b)'
                    /\ get_args_str(j)' = get_args_str(b)']_vars

\* C13 witness: the two jobs were given the same two options, one of them
\* under a key with an underscore, and hold two options each.
C13_Witness ==
    /\ result.op = "add_arguments"
    /\ Len(result.in) = 2
    /\ \E n \in 1..2 : result.in[n].key = <<"a", "_", "b">>
    /\ \A b \in Built : args[b] = args[result.self] /\ Len(args[b]) = 2
    /\ result.self \notin Built

\* the builder methods
Builders ==
    {"add_arguments", "remove_arguments", "add_account", "add_dependency",
     "add_singleton_dependency", "set_dependency_sep", "add_commands"}

\* C14: every builder method returns the Job it was called on.
C14_BuildersReturnSelf ==
    result.op \in Builders =>
        result.kind = "return" /\ result.out = PyJob(result.self)

\* an option as the command line and the script show it: the key alone
\* when the value is empty, the key, a space and the value for a key of two
\* characters, the key, "=" and the value otherwise
OptionText(e) ==
    IF e.val = <<>> THEN e.key
    ELSE IF Len(e.key) = 2 THEN e.key \o <<" ">> \o e.val
    ELSE e.key \o <<"=">> \o e.val

\* the lines of text, each but the last followed by a newline
RECURSIVE Unlines(_)
Unlines(ls) ==
    IF Len(ls) = 1 THEN ls[1] ELSE ls[1] \o <<"\n">> \o Unlines(Tail(ls))

\* C15: the script body is the line "#!" and the shebang; then, only when
\* there is an option, an empty line and a line "#SBATCH " and the option's
\* text for every option in insertion order; then, only when there is a
\* command, an empty line and the commands in order, one per line; nothing
\* else, and no newline at the end.
C15_ScriptBody ==
    \A j \in Jobs :
        get_script_body(j) =
            Unlines(<<<<"#", "!">> \o shebang[j]>>
                    \o (IF Len(args[j]) > 0
                        THEN <<<<>>>>
                             \o [n \in 1..Len(args[j]) |->
                                    <<"#", "S", "B", "A", "T", "C", "H", " ">>
                                    \o OptionText(args[j][n])]
                        ELSE <<>>)
                    \o (IF Len(commands[j]) > 0
                        THEN <<<<>>>> \o commands[j]
                        ELSE <<>>))

\* C15 witness: a job with two options and two commands, commands having
\* been given through add_commands.
C15_Witness ==
    \E j \in Jobs :
        /\ result.op = "add_commands"
        /\ Len(commands[j]) = 2
        /\ Len(args[j]) = 2

\* the text of an option value: nothing for None, the string itself, the
\* digits of a number, the items of a list with commas between them
RECURSIVE ValueText(_)
ValueText(v) ==
    IF v = None THEN <<>>
    ELSE IF isinstance(v, "str") THEN v.s
    ELSE IF isinstance(v, "int") THEN IntToStr(v.i)
    ELSE IF v.l = <<>> THEN <<>>
    ELSE IF Len(v.l) = 1 THEN ValueText(v.l[1])
    ELSE ValueText(v.l[1]) \o <<",">> \o ValueText(PyList(Tail(v.l)))

\* the texts with one space between neighbours
RECURSIVE Spaced(_)
Spaced(ts) ==
    IF ts = <<>> THEN <<>>
    ELSE IF Len(ts) = 1 THEN ts[1]
    ELSE ts[1] \o <<" ">> \o Spaced(Tail(ts))

\* get_args_str() is the options' texts in insertion order with single
\* spaces between them
ArgsStrIsOptionTexts(j) ==
    get_args_str(j) = Spaced([n \in 1..Len(args[j]) |-> OptionText(args[j][n])])

\* after add_arguments, every keyword of the call is an option under the
\* flag its raw key names, which is one of the flags allowed, with the
\* text of the value of the last keyword that names the flag
KeywordsStored(j, allowed(_)) ==
    (result.op = "add_arguments" /\ result.self = j) =>
        LET fl == FlagsOf(result.in)
        IN \A n \in 1..Len(fl) :
              /\ allowed(fl[n])
              /\ DictHas(args[j], fl[n])
              /\ DictGet(args[j], fl[n]) =
                    ValueText(result.in[Max(Naming(fl, fl[n]))].val)

\* C16 as stated: get_args_str() is the options in insertion order with
\* single spaces between them, each as the bare key when its value is
\* empty, as key, space, value for a short flag and as key, "=", value for
\* a long flag; every raw key is stored as "-x" (one character left after
\* its leading underscores) or as "--" and the name with hyphens for
\* underscores (more left), and a value as its text, a list as its items
\* joined by commas.
C16_ArgsStr ==
    \A j \in Jobs :
        /\ ArgsStrIsOptionTexts(j)
        /\ KeywordsStored(j, IsCanonical)

IsCanonicalOrEmpty(k) == IsCanonical(k) \/ k = <<>>

\* C16 as amended: as stated, but a raw key made of underscores only is
\* stored as the empty key, which renders as nothing when its value is
\* empty and as "=" and the value otherwise.
C16_ArgsStrOrEmptyKey ==
    \A j \in Jobs :
        /\ ArgsStrIsOptionTexts(j)
        /\ KeywordsStored(j, IsCanonicalOrEmpty)

\* C16 witness: a job holding -a with a number was given a list under the
\* raw key "__", and its argument string is "-a 10 =x,1".
C16_Witness ==
    \E j \in Jobs :
        /\ result.op = "add_arguments"
        /\ result.self = j
        /\ result.in[1].key = <<"_", "_">>
        /\ isinstance(result.in[1].val, "list")
        /\ get_args_str(j) = <<"-", "a", " ", "1", "0", " ", "=", "x", ",", "1">>

\* ---- the dependency graph and one walk over it
\* the Job objects among j's dependency targets, in insertion order:
\* classes in the order first added, targets within a class in the order
\* added
TargetJobs(j) ==
    LET es == SelectSeq(Entries(deps[j]), LAMBDA e : isinstance(e.dep, "Job"))
    IN [n \in 1..Len(es) |-> es[n].dep.ref]

Range(q) == {q[n] : n \in 1..Len(q)}

\* the jobs that can be reached from the jobs S over dependency links whose
\* target is in the set `over`
RECURSIVE Closure(_, _)
Closure(S, over) ==
    LET N == S \cup UNION {Range(TargetJobs(k)) \cap over : k \in S}
    IN IF N = S THEN S ELSE Closure(N, over)

\* the jobs j depends on, directly or through other jobs
Reachable(j) == Closure(Range(TargetJobs(j)), Jobs)

\* no job that j depends on, and not j itself, depends on itself
AcyclicFrom(j) == \A k \in {j} \cup Reachable(j) : k \notin Reachable(k)

\* the jobs that had no id when the caller called submit()
UnsubmittedAtCall == {k \in Jobs : walk.ids[k] = None}

\* the jobs handed to the external client since the caller called submit()
Invoked == SubSeq(calls, walk.from + 1, Len(calls))

\* the caller's submit() has returned
SubmitReturned == result.op = "submit" /\ result.kind = "return"

\* depth-first order: the jobs behind `acc` that a walk from j hands to the
\* client, every unsubmitted dependency of j with its own first, then j
RECURSIVE DepthFirst(_, _), DepsFirst(_, _)
DepthFirst(j, acc) == Append(DepsFirst(TargetJobs(j), acc), j)
DepsFirst(ts, acc) ==
    IF ts = <<>> THEN acc
    ELSE DepsFirst(Tail(ts),
                   IF Head(ts) \in UnsubmittedAtCall /\ Head(ts) \notin Range(acc)
                   THEN DepthFirst(Head(ts), acc)
                   ELSE acc)

\* C17: when a submit() over an acyclic graph has returned, the external
\* client was invoked, since the call, for the job's unsubmitted Job
\* dependencies in depth-first insertion order (classes in the order first
\* added, targets in the order added, a dependency's own unsubmitted
\* dependencies before it) and for the job itself last.
C17_DepthFirstOrder ==
    (SubmitReturned /\ AcyclicFrom(result.self)) =>
        Invoked = DepthFirst(result.self, <<>>)

\* the jobs a walk from j comes to: those j depends on, directly or through
\* other jobs, over links between jobs that held no id at the call
Walked(j) ==
    Closure(Range(TargetJobs(j)) \cap UnsubmittedAtCall, UnsubmittedAtCall)

\* the number of times x is in the sequence q
Count(q, x) == Cardinality({n \in 1..Len(q) : q[n] = x})

\* C18: from the caller's submit() on, over an acyclic graph, the external
\* client is invoked at most once per job; no dependency that held an id
\* at the call is invoked; a job's id changes only when the client was
\* invoked for that job; and when submit() has returned, every job the
\* walk comes to was invoked once.
C18_EachJobOnce ==
    (result.op = "submit" /\ AcyclicFrom(result.self)) =>
        /\ \A k \in Jobs : Count(Invoked, k) <= 1
        /\ \A k \in Jobs \ {result.self} :
              k \in Range(Invoked) => k \in UnsubmittedAtCall
        /\ \A k \in Jobs : job_id[k] # walk.ids[k] => k \in Range(Invoked)
        /\ SubmitReturned =>
              \A k \in Walked(result.self) : Count(Invoked, k) = 1

\* C19: when a submit() over an acyclic graph has returned, the job and
\* every job it depends on, directly or through other jobs, holds an id.
C19_ReachableJobsHaveIds ==
    (SubmitReturned /\ AcyclicFrom(result.self)) =>
        \A k \in {result.self} \cup Reachable(result.self) : job_id[k] # None

\* the jobs that lay with j on a cycle of dependency links between jobs
\* that held no id when the caller called submit()
CycleOf(j) == {k \in Walked(j) : j \in Walked(k)}

\* C20: from a submit() on a job that lies on a cycle of unsubmitted Job
\* dependencies on, the call does not return, no submit() of a job of the
\* cycle reaches the external client, and no job of the cycle has an id.
C20_CycleNeverReachesClient ==
    (result.op = "submit" /\ result.self \in UnsubmittedAtCall
     /\ result.self \in CycleOf(result.self)) =>
        /\ result.kind # "return"
        /\ \A n \in 1..Len(stack) :
              stack[n].pc = "run" => stack[n].job \notin CycleOf(result.self)
        /\ Range(Invoked) \cap CycleOf(result.self) = {}
        /\ \A k \in CycleOf(result.self) : job_id[k] = None

\* what the claim says of the job after add_dependency("singleton", ...):
\* the singleton class is present with no targets, no after-class has
\* changed, and the job is returned
SingletonAdded(j) ==
    /\ DictHas(deps'[j], Singleton)
    /\ DictGet(deps'[j], Singleton) = <<>>
    /\ AfterClasses(deps'[j]) = AfterClasses(deps[j])
    /\ result'.kind = "return"
    /\ result'.out = PyJob(j)

Reads == {"get_script_body", "__str__", "get_args_str", "get_full_command", "job_id"}

\* C22: a step in which a reading method returns leaves name, shebang,
\* commands, options, the dependency mapping with its keys, the separator
\* and the job ids of every job as they were and hands nothing to the
\* external client; a reading method called again with no call between
\* returns what it returned before; and a job is handed to the external
\* client only in a step of an active submit().
C22_ReadsArePure ==
    [][/\ result'.op \in Reads =>
             /\ result'.kind = "return"
             /\ UNCHANGED <<name, shebang, commands, args, deps, dep_sep, job_id,
                            calls, stack>>
       /\ (result.op \in Reads /\ result'.op = result.op
           /\ result'.self = result.self) => result'.out = result.out
       /\ calls' # calls => stack # <<>> /\ result.op = "submit"]_vars

\* C22 witness: get_full_command() has returned the command of an
\* unsubmitted job that has options and depends on an unsubmitted Job,
\* after some job was handed to the external client.
C22_Witness ==
    \E j \in Jobs :
        /\ result.op = "get_full_command"
        /\ result.self = j
        /\ result.out = PyStr(get_full_command(j))
        /\ job_id[j] = None
        /\ args[j] # <<>>
        /\ \E d \in JobTargets(j) : job_id[d] = None
        /\ calls # <<>>

====
